---- MODULE Spec2Model ----
(***************************************************************************)
(* Model of refinedet/links/model/ssd_vgg16.py: the validation of the      *)
(* (n_fg_class, pretrained_model) pair, the model constructors, the        *)
(* permissive checkpoint loader and the spatial sizes of the feature maps  *)
(* of the VGG-16 extractor used by RefineDet320.                           *)
(***************************************************************************)
EXTENDS Integers, Sequences, FiniteSets, TLC

VARIABLES
    _available,          \* module flag: cv2 could be imported
    pc,                  \* "idle" before the constructor call, "done" after
    cls,                 \* the class whose constructor was called
    arg_n_fg_class,      \* the caller's n_fg_class
    arg_pretrained_model,\* the caller's pretrained_model
    check,               \* outcome of _check_pretrained_model
    exc,                 \* exception that left the constructor ("" if none)
    built,               \* the super().__init__ call completed
    n_class,             \* n_class handed to the multibox head
    params,              \* the model's parameters, by name
    opened,              \* file names np.load was called with
    npz,                 \* contents of the checkpoint that was opened
    downloads,           \* urls download_model was called with
    warned,              \* the RuntimeWarning about cv2 was issued
    fpc,                 \* "idle" before the forward pass, "done" after
    x,                   \* spatial size of the forward pass's input
    ys                   \* feature maps the forward pass returned

vars == <<_available, pc, cls, arg_n_fg_class, arg_pretrained_model, check,
          exc, built, n_class, params, opened, npz, downloads, warned,
          fpc, x, ys>>

ctor_vars == <<pc, cls, arg_n_fg_class, arg_pretrained_model, check, exc,
               built, n_class, params, opened, npz, downloads, warned>>

fwd_vars == <<fpc, x, ys>>

----------------------------------------------------------------------------
(* Bounds *)

MaxNFg == 21        \* n_fg_class ranges over None and 0..MaxNFg
MaxVal == 1         \* checkpoint arrays take the values 1..MaxVal
MaxDelta == 4       \* input sizes range over insize-MaxDelta..insize+MaxDelta

----------------------------------------------------------------------------
(* Python values: None, int and str, and their truth value *)

PyNone == [tag |-> "NoneType", i |-> 0, s |-> ""]

PyInt(n) == [tag |-> "int", i |-> n, s |-> ""]

PyStr(t) == [tag |-> "str", i |-> 0, s |-> t]

Truthy(v) ==
    CASE v.tag = "NoneType" -> FALSE
      [] v.tag = "int" -> v.i # 0
      [] v.tag = "str" -> v.s # ""

----------------------------------------------------------------------------
(* The named weight sets of each class *)

url_ssd300_voc0712 ==
    "https://github.com/yuyu2172/share-weights/releases/download/0.0.3/ssd300_voc0712_2017_06_06.npz"

url_ssd_vgg16_imagenet ==
    "https://github.com/yuyu2172/share-weights/releases/download/0.0.3/ssd_vgg16_imagenet_2017_06_09.npz"

url_vgg_fc_reduced ==
    "https://github.com/fukatani/RefineDet_chainer/releases/download/0.0.0/VGG_ILSVRC_16_layers_fc_reduced.npz"

SSD300Plus_models ==
    ("voc0712" :> [n_fg_class |-> PyInt(20), url |-> url_ssd300_voc0712]) @@
    ("imagenet" :> [n_fg_class |-> PyNone, url |-> url_ssd_vgg16_imagenet])

DSSD300_models ==
    ("voc0712" :> [n_fg_class |-> PyInt(20), url |-> url_ssd300_voc0712]) @@
    ("imagenet" :> [n_fg_class |-> PyNone, url |-> url_ssd_vgg16_imagenet])

ESSD300Plus_models ==
    ("imagenet" :> [n_fg_class |-> PyNone, url |-> url_ssd_vgg16_imagenet])

ESSD300_models ==
    ("imagenet" :> [n_fg_class |-> PyNone, url |-> url_ssd_vgg16_imagenet])

RefineDet320_models ==
    ("imagenet" :> [n_fg_class |-> PyNone, url |-> url_vgg_fc_reduced])

Classes == {"SSD300Plus", "DSSD300", "ESSD300Plus", "ESSD300", "RefineDet320"}

_models(c) ==
    CASE c = "SSD300Plus" -> SSD300Plus_models
      [] c = "DSSD300" -> DSSD300_models
      [] c = "ESSD300Plus" -> ESSD300Plus_models
      [] c = "ESSD300" -> ESSD300_models
      [] c = "RefineDet320" -> RefineDet320_models

\* The classes whose docstring lists 'voc0712' as a value of pretrained_model.
doc_lists_voc0712 == {"DSSD300", "ESSD300Plus", "ESSD300", "RefineDet320"}

----------------------------------------------------------------------------
(* _check_pretrained_model *)

NoMsg == [text |-> "", arg |-> 0]

\* pretrained_model in models
in_models(pretrained_model, models) ==
    pretrained_model.tag = "str" /\ pretrained_model.s \in DOMAIN models

\* Variant of named_n_fg_class without the assignment of line 51: the set's
\* count is not taken over when the caller gives none.
named_n_fg_class_lost(n_fg_class, model) ==
    IF Truthy(n_fg_class)
    THEN IF Truthy(model.n_fg_class) /\ ~(n_fg_class = model.n_fg_class)
         THEN [raised |-> "ValueError",
               msg |-> [text |-> "n_fg_class should be {:d}",
                        arg |-> model.n_fg_class.i],
               n_fg_class |-> n_fg_class]
         ELSE [raised |-> "", msg |-> NoMsg, n_fg_class |-> n_fg_class]
    ELSE IF ~Truthy(model.n_fg_class)
         THEN [raised |-> "ValueError",
               msg |-> [text |-> "n_fg_class must be specified", arg |-> 0],
               n_fg_class |-> n_fg_class]
         ELSE [raised |-> "", msg |-> NoMsg, n_fg_class |-> n_fg_class]

\* The branch on n_fg_class for a named weight set (lines 44-51): raises or
\* yields the count.  n_fg_class is tested by its truth value.
named_n_fg_class(n_fg_class, model) ==
    IF Truthy(n_fg_class)
    THEN IF Truthy(model.n_fg_class) /\ ~(n_fg_class = model.n_fg_class)
         THEN [raised |-> "ValueError",
               msg |-> [text |-> "n_fg_class should be {:d}",
                        arg |-> model.n_fg_class.i],
               n_fg_class |-> n_fg_class]
         ELSE [raised |-> "", msg |-> NoMsg, n_fg_class |-> n_fg_class]
    ELSE IF ~Truthy(model.n_fg_class)
         THEN [raised |-> "ValueError",
               msg |-> [text |-> "n_fg_class must be specified", arg |-> 0],
               n_fg_class |-> n_fg_class]
         ELSE [raised |-> "", msg |-> NoMsg, n_fg_class |-> model.n_fg_class]

\* chainercv.utils.download_model: fetches the url into the cache and returns
\* the path of the cached file.
download_model(url) == PyStr("~/.chainer/dataset/pfnet/chainercv/models/" \o url)

\* Variant of local_path without the test of line 61.
local_path_any(pretrained_model) == pretrained_model

\* The branches for a pretrained_model that is not a named weight set.
local_path(pretrained_model) ==
    IF Truthy(pretrained_model) THEN pretrained_model ELSE PyNone

_check_pretrained_model(n_fg_class, pretrained_model, models) ==
    IF in_models(pretrained_model, models)
    THEN LET model == models[pretrained_model.s]
             r == named_n_fg_class(n_fg_class, model)
         IN  IF r.raised # ""
             THEN [raised |-> r.raised, msg |-> r.msg,
                   n_fg_class |-> r.n_fg_class, path |-> PyNone,
                   downloads |-> {}, warned |-> FALSE]
             ELSE [raised |-> "", msg |-> NoMsg,
                   n_fg_class |-> r.n_fg_class,
                   path |-> download_model(model.url),
                   downloads |-> {model.url},
                   warned |-> ~_available]
    ELSE [raised |-> "", msg |-> NoMsg, n_fg_class |-> n_fg_class,
          path |-> local_path(pretrained_model),
          downloads |-> {}, warned |-> FALSE]

NotCalled ==
    [raised |-> "", msg |-> NoMsg, n_fg_class |-> PyNone, path |-> PyNone,
     downloads |-> {}, warned |-> FALSE]

----------------------------------------------------------------------------
(* _load_npz *)

\* Names of parameters of the model, and a name only a checkpoint has.
ParamNames ==
    {"extractor/conv1_1/W", "extractor/norm4/scale", "multibox/loc/0/W"}

CkptNames == ParamNames \cup {"extractor/conv8_1/W"}

\* Parameters right after construction.
Fresh == [name \in ParamNames |-> 0]

Checkpoints == UNION {[D -> 1..MaxVal] : D \in SUBSET CkptNames}

\* Variant of strict: the deserializer's default.
strict_on == TRUE

\* The strict option given to NpzDeserializer.
strict == FALSE

\* NpzDeserializer.load(obj): every parameter of obj is looked up by name; a
\* name the archive lacks raises KeyError when strict and is skipped otherwise.
_load_npz(f, obj) ==
    IF strict /\ (DOMAIN obj \ DOMAIN f) # {}
    THEN [raised |-> "KeyError", obj |-> obj]
    ELSE [raised |-> "",
          obj |-> [name \in DOMAIN obj |->
                      IF name \in DOMAIN f THEN f[name] ELSE obj[name]]]

----------------------------------------------------------------------------
(* Spatial sizes of the layers *)

\* chainer.utils.get_conv_outsize
get_conv_outsize(size, k, s, p, cover_all, d) ==
    LET dk == k + (k - 1) * (d - 1)
    IN  IF cover_all
        THEN (size + p * 2 - dk + s - 1) \div s + 1
        ELSE (size + p * 2 - dk) \div s + 1

Convolution2D(h, ksize, stride, pad) ==
    get_conv_outsize(h, ksize, stride, pad, FALSE, 1)

DilatedConvolution2D(h, ksize, stride, pad, dilate) ==
    get_conv_outsize(h, ksize, stride, pad, FALSE, dilate)

\* F.max_pooling_2d(h, ksize, stride, pad): cover_all defaults to True
max_pooling_2d(h, ksize, stride, pad) ==
    get_conv_outsize(h, ksize, stride, pad, TRUE, 1)

\* conv1_1 .. conv4_3: L.Convolution2D(c, 3, pad=1)
conv3x3(h) == Convolution2D(h, 3, 1, 1)

\* conv5_1 .. conv5_3: L.DilatedConvolution2D(512, 3, pad=1)
conv5(h) == DilatedConvolution2D(h, 3, 1, 1, 1)

\* conv6: L.DilatedConvolution2D(1024, 3, pad=3, dilate=3)
conv6(h) == DilatedConvolution2D(h, 3, 1, 3, 3)

\* conv7: L.Convolution2D(1024, 1)
conv7(h) == Convolution2D(h, 1, 1, 0)

\* conv6_1: L.Convolution2D(256, 1)
conv6_1(h) == Convolution2D(h, 1, 1, 0)

\* Variant of conv6_2 with the default stride.
conv6_2_stride1(h) == Convolution2D(h, 3, 1, 1)

\* conv6_2: L.Convolution2D(512, 3, stride=2, pad=1)
conv6_2(h) == Convolution2D(h, 3, 2, 1)

FeatureMap(layer, normalized, size) ==
    [layer |-> layer, normalized |-> normalized, size |-> size]

\* VGG16RefineDet.__call__: the list ys of feature maps
VGG16RefineDet_call(x0) ==
    LET h1 == max_pooling_2d(conv3x3(conv3x3(x0)), 2, 2, 0)
        h2 == max_pooling_2d(conv3x3(conv3x3(h1)), 2, 2, 0)
        h3 == max_pooling_2d(conv3x3(conv3x3(conv3x3(h2))), 2, 2, 0)
        h4 == conv3x3(conv3x3(conv3x3(h3)))
        h4p == max_pooling_2d(h4, 2, 2, 0)
        h5 == conv5(conv5(conv5(h4p)))
        h5p == max_pooling_2d(h5, 2, 2, 0)
        h7 == conv7(conv6(h5p))
    IN  << FeatureMap("conv4_3", TRUE, h4),
           FeatureMap("conv5_3", TRUE, h5),
           FeatureMap("conv7", FALSE, h7) >>

\* VGG16Extractor320.__call__
VGG16Extractor320_call(x0) ==
    LET ys0 == VGG16RefineDet_call(x0)
        h == ys0[Len(ys0)].size
    IN  Append(ys0, FeatureMap("conv6_2", FALSE, conv6_2(conv6_1(h))))

insize == 320

grids == <<40, 20, 10, 5>>

\* The arguments RefineDet320.__init__ gives to RefineDetSSD
RefineDet320_aspect_ratios == << <<2>>, <<2>>, <<2>>, <<2>> >>

RefineDet320_steps == <<8, 16, 32, 64>>

RefineDet320_sizes == <<32, 64, 128, 256>>

----------------------------------------------------------------------------
(* Inputs *)

NFgValues == {PyNone} \cup {PyInt(n) : n \in 0..MaxNFg}

PretrainedValues ==
    {PyNone, PyStr(""), PyInt(0),
     PyStr("voc0712"), PyStr("imagenet"), PyStr("result/model_iter_120000")}

InSizes == (insize - MaxDelta)..(insize + MaxDelta)

----------------------------------------------------------------------------
(* State machine *)

Init ==
    /\ _available \in BOOLEAN
    /\ pc = "idle"
    /\ cls = ""
    /\ arg_n_fg_class = PyNone
    /\ arg_pretrained_model = PyNone
    /\ check = NotCalled
    /\ exc = ""
    /\ built = FALSE
    /\ n_class = 0
    /\ params = << >>
    /\ opened = << >>
    /\ npz = << >>
    /\ downloads = {}
    /\ warned = FALSE
    /\ fpc = "idle"
    /\ x = 0
    /\ ys = << >>

\* C.__init__(n_fg_class, pretrained_model) for one of the model classes.
\* file_exists and ckpt are the environment: whether a local path names a
\* readable archive, and the arrays of the archive that is opened.  A
\* download is taken to succeed.
Construct(c, n_fg_class, pretrained_model, file_exists, ckpt) ==
    /\ pc = "idle"
    /\ pc' = "done"
    /\ cls' = c
    /\ arg_n_fg_class' = n_fg_class
    /\ arg_pretrained_model' = pretrained_model
    /\ LET chk == _check_pretrained_model(n_fg_class, pretrained_model,
                                          _models(c))
           present == chk.downloads # {} \/ file_exists
           ld == _load_npz(ckpt, Fresh)
       IN  /\ check' = chk
           /\ downloads' = chk.downloads
           /\ warned' = chk.warned
           /\ IF chk.raised # ""
              THEN /\ exc' = chk.raised
                   /\ built' = FALSE /\ n_class' = 0 /\ params' = << >>
                   /\ opened' = << >> /\ npz' = << >>
              ELSE IF chk.n_fg_class.tag # "int"
              THEN \* n_fg_class + 1 with n_fg_class = None
                   /\ exc' = "TypeError"
                   /\ built' = FALSE /\ n_class' = 0 /\ params' = << >>
                   /\ opened' = << >> /\ npz' = << >>
              ELSE /\ built' = TRUE
                   /\ n_class' = chk.n_fg_class.i + 1
                   /\ IF ~Truthy(chk.path)
                      THEN /\ exc' = "" /\ params' = Fresh
                           /\ opened' = << >> /\ npz' = << >>
                      ELSE /\ opened' = <<chk.path.s>>
                           /\ IF ~present
                              THEN /\ exc' = "IOError" /\ params' = Fresh
                                   /\ npz' = << >>
                              ELSE /\ exc' = ld.raised
                                   /\ params' = ld.obj
                                   /\ npz' = ckpt
    /\ UNCHANGED <<_available, fwd_vars>>

\* model.extractor(x) on a constructed RefineDet320, whose extractor is a
\* VGG16Extractor320, for an input of spatial size x0
Forward(x0) ==
    /\ fpc = "idle"
    /\ pc = "done" /\ built /\ exc = "" /\ cls = "RefineDet320"
    /\ fpc' = "done"
    /\ x' = x0
    /\ ys' = VGG16Extractor320_call(x0)
    /\ UNCHANGED <<_available, ctor_vars>>

Next ==
    \/ /\ pc = "idle"
       /\ \E c \in Classes, n \in NFgValues, pm \in PretrainedValues,
             e \in BOOLEAN, f \in Checkpoints : Construct(c, n, pm, e, f)
    \/ /\ fpc = "idle"
       /\ \E x0 \in InSizes : Forward(x0)

Spec == Init /\ [][Next]_vars

TypeOK ==
    /\ pc \in {"idle", "done"}
    /\ fpc \in {"idle", "done"}
    /\ exc \in {"", "ValueError", "TypeError", "IOError", "KeyError"}

----------------------------------------------------------------------------
(* Properties *)

\* The weight set the call names, when pretrained_model is a key of _models.
NamedSet == _models(cls)[arg_pretrained_model.s]

IsNamed == pc = "done" /\ in_models(arg_pretrained_model, _models(cls))

\* C1: when pretrained_model names a weight set with a fixed class count,
\* every supplied n_fg_class other than that count is rejected with a
\* ValueError, and a supplied n_fg_class equal to it is accepted.
C1_MismatchRejected ==
    (IsNamed /\ NamedSet.n_fg_class # PyNone /\ arg_n_fg_class # PyNone)
    => /\ (arg_n_fg_class # NamedSet.n_fg_class => exc = "ValueError")
       /\ (arg_n_fg_class = NamedSet.n_fg_class => check.raised = "")

\* C2: when neither the caller nor a named weight set gives a class count,
\* the constructor fails with the ValueError 'n_fg_class must be specified',
\* whatever pretrained_model is, and no model is built.
C2_MissingCountIsValueError ==
    (/\ pc = "done"
     /\ arg_n_fg_class = PyNone
     /\ ~(IsNamed /\ NamedSet.n_fg_class # PyNone))
    => /\ exc = "ValueError"
       /\ check.msg.text = "n_fg_class must be specified"
       /\ ~built

\* C3: in every class whose docstring lists 'voc0712', pretrained_model =
\* 'voc0712' selects the named weight set: the file is downloaded from the
\* set's url, no local file named 'voc0712' is opened, and an n_fg_class other
\* than 20 or None is rejected.
C3_Voc0712IsNamedSet ==
    (/\ pc = "done"
     /\ cls \in doc_lists_voc0712
     /\ arg_pretrained_model = PyStr("voc0712"))
    => /\ \A k \in 1..Len(opened) : opened[k] # "voc0712"
       /\ (arg_n_fg_class \notin {PyInt(20), PyNone} => exc = "ValueError")
       /\ (arg_n_fg_class \in {PyInt(20), PyNone}
           => downloads = {url_ssd300_voc0712})

\* C4: with pretrained_model = 'imagenet', every integer n_fg_class >= 0,
\* 0 included, passes _check_pretrained_model, which returns that n_fg_class
\* and the path of the downloaded file.
C4_ImagenetAnyCount ==
    (/\ pc = "done"
     /\ arg_pretrained_model = PyStr("imagenet")
     /\ arg_n_fg_class.tag = "int" /\ arg_n_fg_class.i >= 0)
    => /\ check.raised = ""
       /\ check.n_fg_class = arg_n_fg_class
       /\ check.path = download_model(NamedSet.url)

\* C5: with a falsy pretrained_model that is not a named key, the returned
\* path is None, download_model is not called, _load_npz is not called, and
\* a model that is built keeps its freshly initialised parameters.
C5_FalsyLoadsNothing ==
    (/\ pc = "done"
     /\ ~Truthy(arg_pretrained_model)
     /\ ~in_models(arg_pretrained_model, _models(cls)))
    => /\ check.raised = ""
       /\ check.path = PyNone
       /\ downloads = {}
       /\ opened = << >>
       /\ (built => params = Fresh)

C5_Witness ==
    /\ pc = "done"
    /\ arg_pretrained_model = PyStr("")
    /\ arg_n_fg_class = PyInt(20)
    /\ built /\ exc = ""
    /\ check.path = PyNone /\ opened = << >> /\ params = Fresh

\* C6: loading a readable checkpoint never fails over a missing name; the
\* parameters whose names the checkpoint has take the checkpoint's values and
\* all others keep their values.
C6_PermissiveLoad ==
    (pc = "done" /\ opened # << >> /\ exc # "IOError")
    => /\ exc = ""
       /\ \A name \in ParamNames :
             params[name] = IF name \in DOMAIN npz THEN npz[name]
                                                   ELSE Fresh[name]

C6_Witness ==
    /\ pc = "done" /\ opened # << >> /\ exc = ""
    /\ ParamNames \ DOMAIN npz # {}
    /\ DOMAIN npz \ ParamNames # {}
    /\ \E name \in ParamNames : name \in DOMAIN npz /\ params[name] = npz[name]
    /\ \E name \in ParamNames : name \notin DOMAIN npz /\ params[name] = 0

\* C7: when _check_pretrained_model returns for a named weight set, the count
\* it returns is the set's count if the caller gave None and the set has one
\* (and then n_class is that count plus one), is the caller's n_fg_class if
\* that is non-zero, and is never None.
C7_ReturnedCount ==
    (IsNamed /\ check.raised = "")
    => /\ (arg_n_fg_class = PyNone /\ NamedSet.n_fg_class # PyNone
           => /\ check.n_fg_class = NamedSet.n_fg_class
              /\ built /\ n_class = NamedSet.n_fg_class.i + 1)
       /\ (arg_n_fg_class.tag = "int" /\ arg_n_fg_class.i # 0
           => check.n_fg_class = arg_n_fg_class)
       /\ check.n_fg_class # PyNone

C7_Witness ==
    /\ pc = "done" /\ cls = "DSSD300"
    /\ arg_pretrained_model = PyStr("voc0712")
    /\ arg_n_fg_class = PyNone
    /\ check.n_fg_class = PyInt(20)
    /\ n_class = 21

====
